---------------------------- MODULE Spec2Model ----------------------------
(***************************************************************************)
(* Model of the bus-target event dispatcher (simulation/src/i2c_target.rs), *)
(* the default combined write-read of the target capability traits         *)
(* (proposed-traits/src/i2c_target.rs), the advanced target extension      *)
(* (proposed-traits/src/i3c_target.rs), the reference controller           *)
(* DummyI3cController (simulation/src/i3c.rs), the error classification    *)
(* (simulation/src/i3c.rs, simulation/src/mac.rs), the I3C event handler   *)
(* (simulation/src/i3c.rs) and the drivers SpiDeviceDriver and Smbus       *)
(* (drivers/src/spi_device_driver.rs, drivers/src/smbus.rs).               *)
(*                                                                         *)
(* The target behind the dispatcher is a generic parameter of the code     *)
(* (T: I2CTarget): what its callbacks return is an input of the model,     *)
(* drawn with \E, and every callback the code makes is appended to the     *)
(* call log `calls`.                                                       *)
(***************************************************************************)
EXTENDS Integers, Sequences, FiniteSets, TLC

VARIABLES
    events,           \* the operations invoked so far, in order (history)
    calls,            \* the callbacks made on the target, in order
    results,          \* what each invoked operation returned to its caller
    dynamic_address,  \* I3C target: <<>> (None) or <<a>> (Some(a))
    i3c_enabled,      \* I3C target: advanced-protocol behaviour enabled
    daa_requests,     \* addresses passed to on_dynamic_address_assigned
                      \* since the last reset (history)
    ibi_pending,      \* I3C target: an in-band interrupt request is pending
    ibi_log,          \* I3C target: the IBI callbacks made and the
                      \* interrupt-worthy events, in order (history)
    ctrl_log,         \* controller: the operations called, in order (history)
    pending_joiners,  \* bus: static addresses of the devices asking to hot-join
    kind_log,         \* the error classifications made, in order (history)
    poll_interval,    \* SpiDeviceDriver: config.poll_interval
    cs_state,         \* SpiDeviceDriver: level of the chip-select pin (TRUE = high)
    reset_state,      \* SpiDeviceDriver: level of the reset pin (TRUE = high)
    hal_log,          \* driver: the calls made on the objects the driver
                      \* owns, in order (history)
    drv_log           \* driver: the operations invoked on it, in order (history)

vars == <<events, calls, results, dynamic_address, i3c_enabled, daa_requests,
          ibi_pending, ibi_log, ctrl_log, pending_joiners, kind_log,
          poll_interval, cs_state, reset_state, hal_log, drv_log>>

i2cVars == <<events, calls, results>>
i3cTargetVars == <<dynamic_address, i3c_enabled, daa_requests>>
ibiVars == <<ibi_pending, ibi_log>>
ctrlVars == <<ctrl_log, pending_joiners>>
kindVars == <<kind_log>>
pinVars == <<poll_interval, cs_state, reset_state>>
drvVars == <<pinVars, hal_log, drv_log>>

---------------------------------------------------------------------------
(* Bounds of the model.                                                    *)

MaxEvents == 5        \* events fed to i2c_event_handler in one behaviour
MaxWriteReads == 2    \* on_write_read invocations in one behaviour
MaxDaa == 3           \* on_dynamic_address_assigned calls between resets
MaxAddr == 5          \* dynamic addresses are drawn from 1..MaxAddr
MaxCtrlCalls == 3     \* controller operations in one behaviour
MaxClassify == 5      \* kind() calls in one behaviour
MaxDrvCalls == 2      \* SpiDeviceDriver operations in one behaviour
MaxInits == 2         \* SpiDeviceDriver::init calls in one behaviour
MaxTimeout == 2       \* wait_busy is called with timeout_ms in 0..MaxTimeout
MaxSmbusCalls == 2    \* Smbus operations in one behaviour
MaxI3cEvents == 3     \* events fed to i3c_event_handler in one behaviour
MaxIbiCalls == 6      \* IBI callbacks and events in one behaviour

TargetAddr == 16      \* the bus address the controller sends (0x10)
Payloads == {<<1>>, <<2, 3>>}      \* the write bursts the controller sends
ReadBuffers == {<<0>>}             \* the read buffers the controller hands over
WriteBuffers == {<<1>>, <<2, 3>>}  \* write parts of a combined write-read
WRReadBuffers == {<<0>>, <<0, 0>>} \* read parts of a combined write-read
Errors == {1, 2}                   \* two distinct values of T::Error
DispatchErrors == {1}              \* the error a callback under the dispatcher returns

---------------------------------------------------------------------------
(* Values.                                                                 *)

Unit == [tag |-> "Unit", val |-> 0]
BoolRet(b) == [tag |-> IF b THEN "True" ELSE "False", val |-> 0]
Ok(n) == [tag |-> "Ok", val |-> n]
Err(e) == [tag |-> "Err", val |-> e]

WriteResults(E) == {Ok(0)} \cup {Err(e) : e \in E}
ReadResults(buffer, E) == {Ok(n) : n \in 0..Len(buffer)} \cup {Err(e) : e \in E}

\* One callback made on the target: which one, for which invoked operation
\* (index into events), with which argument, and what the target returned.
Call(op, ev, addr, repeated, data, ret) ==
    [op |-> op, ev |-> ev, addr |-> addr, repeated |-> repeated,
     data |-> data, ret |-> ret]

\* I2CEvent, and an invocation of on_write_read; the fields an event kind
\* does not have are 0, FALSE or <<>>.  (Every record of the model lists
\* its fields in the order TLC keeps them, so that no worker reorders a
\* record another worker is reading.)
Event(kind, addr, repeated, data, rbuf) ==
    [addr |-> addr, repeated |-> repeated, data |-> data, kind |-> kind, rbuf |-> rbuf]

AddressMatch(addr) == Event("AddressMatch", addr, FALSE, <<>>, <<>>)
TransactionStart(repeated) == Event("TransactionStart", 0, repeated, <<>>, <<>>)
Write(data) == Event("Write", 0, FALSE, data, <<>>)
Read(buffer) == Event("Read", 0, FALSE, <<>>, buffer)
Stop == Event("Stop", 0, FALSE, <<>>, <<>>)
WriteReadOp(wbuf, rbuf) == Event("WriteRead", 0, FALSE, wbuf, rbuf)

---------------------------------------------------------------------------
(* I2CTargetDriver: each method forwards to the target and returns what    *)
(* the target returned.  c is the call log, i the index of the event.      *)

handle_address_match(c, i, addr, ret) ==
    [calls |-> Append(c, Call("on_address_match", i, addr, FALSE, <<>>, BoolRet(ret))),
     result |-> BoolRet(ret)]

handle_transaction_start(c, i, repeated) ==
    [calls |-> Append(c, Call("on_transaction_start", i, 0, repeated, <<>>, Unit)),
     result |-> Unit]

\* mutant: only the first byte of the burst reaches the target
handle_write_first_byte(c, i, data, ret) ==
    [calls |-> Append(c, Call("on_write", i, 0, FALSE, <<Head(data)>>, ret)),
     result |-> ret]

handle_write(c, i, data, ret) ==
    [calls |-> Append(c, Call("on_write", i, 0, FALSE, data, ret)),
     result |-> ret]

handle_read(c, i, buffer, ret) ==
    [calls |-> Append(c, Call("on_read", i, 0, FALSE, buffer, ret)),
     result |-> ret]

\* mutant: the stop is swallowed when the previous callback failed
handle_stop_unless_failed(c, i) ==
    IF Len(c) > 0 /\ c[Len(c)].ret.tag = "Err"
    THEN [calls |-> c, result |-> Unit]
    ELSE [calls |-> Append(c, Call("on_stop", i, 0, FALSE, <<>>, Unit)),
          result |-> Unit]

\* mutant: the stop never reaches the target
handle_stop_dropped(c, i) == [calls |-> c, result |-> Unit]

handle_stop(c, i) ==
    [calls |-> Append(c, Call("on_stop", i, 0, FALSE, <<>>, Unit)),
     result |-> Unit]

\* mutant: a handler that remembers the last address match and forwards
\* no data to a target that declined it
i2c_event_handler_gated(c, i, event, resp) ==
    LET matches == {j \in DOMAIN c : c[j].op = "on_address_match"}
        declined == /\ matches # {}
                    /\ c[CHOOSE j \in matches : \A k \in matches : k <= j].ret.tag = "False"
    IN  CASE event.kind = "AddressMatch" ->
               [calls |-> handle_address_match(c, i, event.addr, resp.tag = "True").calls,
                result |-> Unit]
          [] event.kind = "TransactionStart" ->
               [calls |-> handle_transaction_start(c, i, event.repeated).calls, result |-> Unit]
          [] event.kind = "Write" ->
               [calls |-> IF declined THEN c ELSE handle_write(c, i, event.data, resp).calls,
                result |-> Unit]
          [] event.kind = "Read" ->
               [calls |-> IF declined THEN c ELSE handle_read(c, i, event.rbuf, resp).calls,
                result |-> Unit]
          [] event.kind = "Stop" ->
               [calls |-> handle_stop(c, i).calls, result |-> Unit]

\* i2c_event_handler: one match arm per event kind.  The value of
\* handle_address_match is tested and the branch is empty; the results of
\* handle_write and handle_read are dropped (let _ =).  The handler
\* returns ().  resp is what the target's callback returns.
i2c_event_handler(c, i, event, resp) ==
    CASE event.kind = "AddressMatch" ->
           LET r == handle_address_match(c, i, event.addr, resp.tag = "True")
           IN  IF r.result.tag = "True"
               THEN [calls |-> r.calls, result |-> Unit]
               ELSE [calls |-> r.calls, result |-> Unit]
      [] event.kind = "TransactionStart" ->
           [calls |-> handle_transaction_start(c, i, event.repeated).calls, result |-> Unit]
      [] event.kind = "Write" ->
           [calls |-> handle_write(c, i, event.data, resp).calls, result |-> Unit]
      [] event.kind = "Read" ->
           [calls |-> handle_read(c, i, event.rbuf, resp).calls, result |-> Unit]
      [] event.kind = "Stop" ->
           [calls |-> handle_stop(c, i).calls, result |-> Unit]

---------------------------------------------------------------------------
(* The dispatcher fed with a stream of events.                             *)

Init ==
    /\ events = <<>>
    /\ calls = <<>>
    /\ results = <<>>
    /\ dynamic_address = <<>>
    /\ i3c_enabled = FALSE
    /\ daa_requests = <<>>
    /\ ibi_pending = FALSE
    /\ ibi_log = <<>>
    /\ ctrl_log = <<>>
    /\ pending_joiners = {}
    /\ kind_log = <<>>
    /\ poll_interval = 0
    /\ cs_state = FALSE
    /\ reset_state = FALSE
    /\ hal_log = <<>>
    /\ drv_log = <<>>

\* The state after i2c_event_handler(driver, event) has run; resp is what
\* the target's callback returns.
Dispatch(event, resp) ==
    LET r == i2c_event_handler(calls, Len(events) + 1, event, resp)
    IN  [events |-> Append(events, event),
         calls |-> r.calls,
         results |-> Append(results, r.result)]

EvAddressMatch ==
    \E ret \in BOOLEAN :
        /\ Len(events) < MaxEvents
        /\ LET n == Dispatch(AddressMatch(TargetAddr), BoolRet(ret))
           IN  events' = n.events /\ calls' = n.calls /\ results' = n.results
        /\ UNCHANGED <<i3cTargetVars, ibiVars, ctrlVars, kindVars, drvVars>>

EvTransactionStart ==
    \E repeated \in BOOLEAN :
        /\ Len(events) < MaxEvents
        /\ LET n == Dispatch(TransactionStart(repeated), Unit)
           IN  events' = n.events /\ calls' = n.calls /\ results' = n.results
        /\ UNCHANGED <<i3cTargetVars, ibiVars, ctrlVars, kindVars, drvVars>>

EvWrite ==
    \E data \in Payloads : \E ret \in WriteResults(DispatchErrors) :
        /\ Len(events) < MaxEvents
        /\ LET n == Dispatch(Write(data), ret)
           IN  events' = n.events /\ calls' = n.calls /\ results' = n.results
        /\ UNCHANGED <<i3cTargetVars, ibiVars, ctrlVars, kindVars, drvVars>>

\* under the dispatcher on_read fills the whole buffer or fails
EvRead ==
    \E buffer \in ReadBuffers :
    \E ret \in {Ok(Len(buffer))} \cup {Err(e) : e \in DispatchErrors} :
        /\ Len(events) < MaxEvents
        /\ LET n == Dispatch(Read(buffer), ret)
           IN  events' = n.events /\ calls' = n.calls /\ results' = n.results
        /\ UNCHANGED <<i3cTargetVars, ibiVars, ctrlVars, kindVars, drvVars>>

EvStop ==
    /\ Len(events) < MaxEvents
    /\ LET n == Dispatch(Stop, Unit)
       IN  events' = n.events /\ calls' = n.calls /\ results' = n.results
    /\ UNCHANGED <<i3cTargetVars, ibiVars, ctrlVars, kindVars, drvVars>>

Next ==
    \/ EvAddressMatch
    \/ EvTransactionStart
    \/ EvWrite
    \/ EvRead
    \/ EvStop

Spec == Init /\ [][Next]_vars

---------------------------------------------------------------------------
(* WriteReadTarget::on_write_read, the default method: on_write, `?`, then *)
(* on_read.  wres and rres are what the target's on_write and on_read      *)
(* return.                                                                 *)

\* mutant: the result of on_write is dropped and on_read is always called
on_write_read_ignoring_write(c, i, write_buffer, read_buffer, wres, rres) ==
    LET c1 == Append(c, Call("on_write", i, 0, FALSE, write_buffer, wres))
    IN  [calls |-> Append(c1, Call("on_read", i, 0, FALSE, read_buffer, rres)),
         result |-> rres]

on_write_read(c, i, write_buffer, read_buffer, wres, rres) ==
    LET c1 == Append(c, Call("on_write", i, 0, FALSE, write_buffer, wres))
    IN  IF wres.tag = "Err"
        THEN [calls |-> c1, result |-> wres]
        ELSE [calls |-> Append(c1, Call("on_read", i, 0, FALSE, read_buffer, rres)),
              result |-> rres]

OnWriteRead ==
    \E wbuf \in WriteBuffers : \E rbuf \in WRReadBuffers :
    \E wres \in WriteResults(Errors) : \E rres \in ReadResults(rbuf, Errors) :
        /\ Len(events) < MaxWriteReads
        /\ LET r == on_write_read(calls, Len(events) + 1, wbuf, rbuf, wres, rres)
           IN  /\ calls' = r.calls
               /\ results' = Append(results, r.result)
        /\ events' = Append(events, WriteReadOp(wbuf, rbuf))
        /\ UNCHANGED <<i3cTargetVars, ibiVars, ctrlVars, kindVars, drvVars>>

NextWriteRead == OnWriteRead

SpecWriteRead == Init /\ [][NextWriteRead]_vars

---------------------------------------------------------------------------
(* I3CTarget: dynamic address assignment.  The trait declares the callback *)
(* and no target implements it; the target is modelled from its contract:  *)
(* store the address, enable the advanced protocol, ignore a further       *)
(* assignment until the target state is reset.                             *)

\* mutant: the new address is stored on every call
on_dynamic_address_assigned_overwrite(target, new_address) ==
    [dynamic_address |-> <<new_address>>, i3c_enabled |-> TRUE]

on_dynamic_address_assigned(target, new_address) ==
    IF target.dynamic_address = <<>>
    THEN [dynamic_address |-> <<new_address>>, i3c_enabled |-> TRUE]
    ELSE target

reset_target(target) == [dynamic_address |-> <<>>, i3c_enabled |-> FALSE]

I3cTarget == [dynamic_address |-> dynamic_address, i3c_enabled |-> i3c_enabled]

DynamicAddressAssigned ==
    \E new_address \in 1..MaxAddr :
        /\ Len(daa_requests) < MaxDaa
        /\ LET t == on_dynamic_address_assigned(I3cTarget, new_address)
           IN  /\ dynamic_address' = t.dynamic_address
               /\ i3c_enabled' = t.i3c_enabled
        /\ daa_requests' = Append(daa_requests, new_address)
        /\ UNCHANGED <<i2cVars, ibiVars, ctrlVars, kindVars, drvVars>>

ResetTarget ==
    /\ LET t == reset_target(I3cTarget)
       IN  /\ dynamic_address' = t.dynamic_address
           /\ i3c_enabled' = t.i3c_enabled
    /\ daa_requests' = <<>>
    /\ UNCHANGED <<i2cVars, ibiVars, ctrlVars, kindVars, drvVars>>

NextI3cTarget ==
    \/ DynamicAddressAssigned
    \/ ResetTarget

SpecI3cTarget == Init /\ [][NextI3cTarget]_vars

---------------------------------------------------------------------------
(* I3CTarget: in-band interrupts.  The trait declares wants_ibi,           *)
(* get_ibi_payload and on_ibi_acknowledged; no target implements them and  *)
(* no code calls them.  The target is modelled from its contract: one      *)
(* pending-request flag, set by an interrupt-worthy event, read by         *)
(* wants_ibi (&self: it changes nothing), required by get_ibi_payload and  *)
(* cleared by on_ibi_acknowledged.                                         *)

IbiBuffers == {<<0>>, <<0, 0, 0>>}   \* the buffers handed to get_ibi_payload

\* the contract-violation error of get_ibi_payload
IbiErr == [tag |-> "IbiError", val |-> 0]

\* one entry of the IBI history: a callback with its buffer and its result,
\* an interrupt-worthy event, or the controller's decision on a request
IbiCall(op, data, ret) == [op |-> op, data |-> data, ret |-> ret]

wants_ibi(pending) == BoolRet(pending)

\* mutant: the payload is handed out whether or not a request is pending
get_ibi_payload_unchecked(pending, buffer, n) == Ok(n)

\* n is the number of payload bytes the target has, 1..Len(buffer)
get_ibi_payload(pending, buffer, n) ==
    IF pending THEN Ok(n) ELSE IbiErr

\* mutant: the pending-request flag survives the acknowledgment
on_ibi_acknowledged_keeps_flag(pending) == pending

\* the pending-request flag after on_ibi_acknowledged
on_ibi_acknowledged(pending) == FALSE

\* an interrupt-worthy event occurs on the target
IbiEvent ==
    /\ Len(ibi_log) < MaxIbiCalls
    /\ ibi_pending' = TRUE
    /\ ibi_log' = Append(ibi_log, IbiCall("event", <<>>, Unit))
    /\ UNCHANGED <<i2cVars, i3cTargetVars, ctrlVars, kindVars, drvVars>>

CallWantsIbi ==
    /\ Len(ibi_log) < MaxIbiCalls
    /\ ibi_log' = Append(ibi_log, IbiCall("wants_ibi", <<>>, wants_ibi(ibi_pending)))
    /\ UNCHANGED <<ibi_pending, i2cVars, i3cTargetVars, ctrlVars, kindVars, drvVars>>

CallGetIbiPayload ==
    \E buffer \in IbiBuffers : \E n \in 1..Len(buffer) :
        /\ Len(ibi_log) < MaxIbiCalls
        /\ ibi_log' = Append(ibi_log, IbiCall("get_ibi_payload", buffer,
                                              get_ibi_payload(ibi_pending, buffer, n)))
        /\ UNCHANGED <<ibi_pending, i2cVars, i3cTargetVars, ctrlVars, kindVars, drvVars>>

CallOnIbiAcknowledged ==
    /\ Len(ibi_log) < MaxIbiCalls
    /\ ibi_pending' = on_ibi_acknowledged(ibi_pending)
    /\ ibi_log' = Append(ibi_log, IbiCall("on_ibi_acknowledged", <<>>, Unit))
    /\ UNCHANGED <<i2cVars, i3cTargetVars, ctrlVars, kindVars, drvVars>>

\* the target's callbacks called in any order
NextIbiTarget ==
    \/ IbiEvent
    \/ CallWantsIbi
    \/ CallGetIbiPayload
    \/ CallOnIbiAcknowledged

SpecIbiTarget == Init /\ [][NextIbiTarget]_vars

\* mutant: the payload is fetched before the target is asked
service_ibi_fetch_first(log, pending, accept, buffer, n) ==
    LET l1 == Append(log, IbiCall("get_ibi_payload", buffer, get_ibi_payload(pending, buffer, n)))
        l2 == Append(l1, IbiCall("wants_ibi", <<>>, wants_ibi(pending)))
    IN  IF ~pending
        THEN [ibi_pending |-> pending, ibi_log |-> l2]
        ELSE [ibi_pending |-> on_ibi_acknowledged(pending),
              ibi_log |-> Append(l2, IbiCall("on_ibi_acknowledged", <<>>, Unit))]

\* The bus logic serving one IBI request, by the sequencing rule
\* wants_ibi() = true -> get_ibi_payload() (when the controller accepts)
\* -> on_ibi_acknowledged().
service_ibi(log, pending, accept, buffer, n) ==
    LET w == wants_ibi(pending)
        l1 == Append(log, IbiCall("wants_ibi", <<>>, w))
    IN  IF w.tag # "True"
        THEN [ibi_pending |-> pending, ibi_log |-> l1]
        ELSE IF accept
        THEN LET l2 == Append(l1, IbiCall("accepted", <<>>, Unit))
                 l3 == Append(l2, IbiCall("get_ibi_payload", buffer,
                                          get_ibi_payload(pending, buffer, n)))
             IN  [ibi_pending |-> on_ibi_acknowledged(pending),
                  ibi_log |-> Append(l3, IbiCall("on_ibi_acknowledged", <<>>, Unit))]
        ELSE LET l2 == Append(l1, IbiCall("declined", <<>>, Unit))
             IN  [ibi_pending |-> on_ibi_acknowledged(pending),
                  ibi_log |-> Append(l2, IbiCall("on_ibi_acknowledged", <<>>, Unit))]

ServiceIbi ==
    \E accept \in BOOLEAN : \E buffer \in IbiBuffers : \E n \in 1..Len(buffer) :
        /\ Len(ibi_log) < MaxIbiCalls
        /\ LET r == service_ibi(ibi_log, ibi_pending, accept, buffer, n)
           IN  ibi_pending' = r.ibi_pending /\ ibi_log' = r.ibi_log
        /\ UNCHANGED <<i2cVars, i3cTargetVars, ctrlVars, kindVars, drvVars>>

\* the target driven by the bus logic only
NextIbiService ==
    \/ IbiEvent
    \/ ServiceIbi

SpecIbiService == Init /\ [][NextIbiService]_vars

---------------------------------------------------------------------------
(* DummyI3cController (simulation/src/i3c.rs): a unit struct implementing  *)
(* embedded_hal::i2c::I2c and i3c_master::I3c.  It holds no state; the     *)
(* devices asserting a hot-join request are state of the bus.              *)

static_addr == 82                       \* 0x52, the address test_i3c_sequence uses
StaticAddrs == {0, static_addr, 127}   \* 7-bit addresses, with both ends
BusAddrs == {static_addr, 127}          \* addresses of the devices on the bus
HotJoiners == {static_addr}             \* the device that may ask to join the bus
Speeds == {"SDR", "HDR", "HDRDdr"}      \* I3cSpeed

\* a call the controller makes on itself while serving another call
NestedCall(op, addr, ret) == [op |-> op, addr |-> addr, ret |-> ret]

\* One call on the controller: the operation, its address and other
\* arguments, the calls it made on itself, its result, and the devices
\* waiting to join before and after it.
CtrlCall(op, addr, data, nested, ret, before, after) ==
    [op |-> op, addr |-> addr, data |-> data, ret |-> ret,
     nested |-> nested, before |-> before, after |-> after]

i2c_read(address, buffer) == Ok(0)
i2c_write(address, data) == Ok(0)
i2c_transaction(address, operations) == Ok(0)

\* embedded-hal's provided write_read: one transaction of a write and a read
i2c_write_read(address, write, read) ==
    i2c_transaction(address, <<write, read>>)

\* mutant: one fixed dynamic address, whatever the static address
assign_dynamic_address_fixed(static_address) == Ok(83)

\* mutant: the static address is handed back as the dynamic one
assign_dynamic_address_same(static_address) == Ok(static_address % 256)

\* static_address + 1 on a u8
assign_dynamic_address(static_address) == Ok((static_address + 1) % 256)

acknowledge_ibi(address) == Ok(0)

\* mutant: an address is assigned whether or not a device asked to join
handle_hot_join_assigning(joiners) ==
    [ret |-> Ok(0),
     nested |-> <<NestedCall("assign_dynamic_address", 0, Ok(1))>>,
     after |-> joiners]

\* Ok(()) at once: no call on the controller, the waiting devices untouched
handle_hot_join(joiners) ==
    [ret |-> Ok(0), nested |-> <<>>, after |-> joiners]

set_bus_speed(speed) == Ok(0)

\* mutant: the request for mastership is refused
request_mastership_refused == Err(1)

request_mastership == Ok(0)

\* a call that makes no call on the controller and leaves the bus alone
SimpleCall(op, addr, data, ret) ==
    CtrlCall(op, addr, data, <<>>, ret, pending_joiners, pending_joiners)

HotJoinCall(joiners) ==
    LET r == handle_hot_join(joiners)
    IN  CtrlCall("handle_hot_join", 0, <<>>, r.nested, r.ret, joiners, r.after)

\* a device asserts a hot-join request on the bus
HotJoinRequest ==
    \E j \in HotJoiners :
        /\ Len(ctrl_log) < MaxCtrlCalls
        /\ j \notin pending_joiners
        /\ pending_joiners' = pending_joiners \cup {j}
        /\ UNCHANGED <<ctrl_log, i2cVars, i3cTargetVars, ibiVars, kindVars, drvVars>>

AssignDynamicAddress ==
    \E s \in StaticAddrs :
        /\ Len(ctrl_log) < MaxCtrlCalls
        /\ ctrl_log' = Append(ctrl_log, SimpleCall("assign_dynamic_address", s, <<>>,
                                                   assign_dynamic_address(s)))
        /\ UNCHANGED <<pending_joiners, i2cVars, i3cTargetVars, ibiVars, kindVars, drvVars>>

AcknowledgeIbi ==
    \E a \in BusAddrs :
        /\ Len(ctrl_log) < MaxCtrlCalls
        /\ ctrl_log' = Append(ctrl_log, SimpleCall("acknowledge_ibi", a, <<>>,
                                                   acknowledge_ibi(a)))
        /\ UNCHANGED <<pending_joiners, i2cVars, i3cTargetVars, ibiVars, kindVars, drvVars>>

HandleHotJoin ==
    /\ Len(ctrl_log) < MaxCtrlCalls
    /\ ctrl_log' = Append(ctrl_log, HotJoinCall(pending_joiners))
    /\ pending_joiners' = handle_hot_join(pending_joiners).after
    /\ UNCHANGED <<i2cVars, i3cTargetVars, ibiVars, kindVars, drvVars>>

SetBusSpeed ==
    \E speed \in Speeds :
        /\ Len(ctrl_log) < MaxCtrlCalls
        /\ ctrl_log' = Append(ctrl_log, SimpleCall("set_bus_speed", 0, <<speed>>,
                                                   set_bus_speed(speed)))
        /\ UNCHANGED <<pending_joiners, i2cVars, i3cTargetVars, ibiVars, kindVars, drvVars>>

RequestMastership ==
    /\ Len(ctrl_log) < MaxCtrlCalls
    /\ ctrl_log' = Append(ctrl_log, SimpleCall("request_mastership", 0, <<>>,
                                               request_mastership))
    /\ UNCHANGED <<pending_joiners, i2cVars, i3cTargetVars, ibiVars, kindVars, drvVars>>

I2cRead ==
    \E a \in BusAddrs :
        /\ Len(ctrl_log) < MaxCtrlCalls
        /\ ctrl_log' = Append(ctrl_log, SimpleCall("read", a, <<>>, i2c_read(a, <<0, 0>>)))
        /\ UNCHANGED <<pending_joiners, i2cVars, i3cTargetVars, ibiVars, kindVars, drvVars>>

I2cWrite ==
    \E a \in BusAddrs :
        /\ Len(ctrl_log) < MaxCtrlCalls
        /\ ctrl_log' = Append(ctrl_log, SimpleCall("write", a, <<1, 2>>, i2c_write(a, <<1, 2>>)))
        /\ UNCHANGED <<pending_joiners, i2cVars, i3cTargetVars, ibiVars, kindVars, drvVars>>

I2cTransaction ==
    \E a \in BusAddrs :
        /\ Len(ctrl_log) < MaxCtrlCalls
        /\ ctrl_log' = Append(ctrl_log, SimpleCall("transaction", a, <<1, 2>>,
                                                   i2c_transaction(a, <<<<1, 2>>, <<0, 0>>>>)))
        /\ UNCHANGED <<pending_joiners, i2cVars, i3cTargetVars, ibiVars, kindVars, drvVars>>

I2cWriteRead ==
    \E a \in BusAddrs :
        /\ Len(ctrl_log) < MaxCtrlCalls
        /\ ctrl_log' = Append(ctrl_log, SimpleCall("write_read", a, <<1, 2>>,
                                                   i2c_write_read(a, <<1, 2>>, <<0, 0>>)))
        /\ UNCHANGED <<pending_joiners, i2cVars, i3cTargetVars, ibiVars, kindVars, drvVars>>

\* test_i3c_sequence: six calls on one controller, each made whatever the
\* result of the one before
TestI3cSequence ==
    /\ Len(ctrl_log) < MaxCtrlCalls
    /\ LET hj == HotJoinCall(pending_joiners)
       IN  /\ ctrl_log' = ctrl_log \o
                 << SimpleCall("test_i3c_sequence", static_addr, <<>>, Unit),
                    SimpleCall("assign_dynamic_address", static_addr, <<>>,
                               assign_dynamic_address(static_addr)),
                    SimpleCall("acknowledge_ibi", static_addr, <<>>,
                               acknowledge_ibi(static_addr)),
                    hj,
                    CtrlCall("set_bus_speed", 0, <<"SDR">>, <<>>, set_bus_speed("SDR"),
                             hj.after, hj.after),
                    CtrlCall("request_mastership", 0, <<>>, <<>>, request_mastership,
                             hj.after, hj.after),
                    CtrlCall("write_read", static_addr, <<1, 2>>, <<>>,
                             i2c_write_read(static_addr, <<1, 2>>, <<0, 0>>),
                             hj.after, hj.after) >>
           /\ pending_joiners' = hj.after
    /\ UNCHANGED <<i2cVars, i3cTargetVars, ibiVars, kindVars, drvVars>>

NextController ==
    \/ HotJoinRequest
    \/ AssignDynamicAddress
    \/ AcknowledgeIbi
    \/ HandleHotJoin
    \/ SetBusSpeed
    \/ RequestMastership
    \/ I2cRead
    \/ I2cWrite
    \/ I2cTransaction
    \/ I2cWriteRead
    \/ TestI3cSequence

SpecController == Init /\ [][NextController]_vars

---------------------------------------------------------------------------
(* Drivers.  A driver owns HAL objects of generic type; what their methods *)
(* return is an input of the model.  Every call a driver makes on an       *)
(* object it owns is appended to hal_log, every operation invoked on the   *)
(* driver to drv_log.                                                      *)

\* One call on an owned object: the method, the driver operation it was
\* made for (index into drv_log), its arguments, its result, and the levels
\* of the chip-select and reset pins when it returned.
HalCall(op, ev, data, ret, cs, reset) ==
    [op |-> op, ev |-> ev, data |-> data, ret |-> ret, cs |-> cs, reset |-> reset]

\* one operation invoked on a driver, with its arguments and its result
DrvCall(op, data, ret) == [op |-> op, data |-> data, ret |-> ret]

---------------------------------------------------------------------------
(* I3cDriver<T: I3c> and i3c_event_handler (simulation/src/i3c.rs).        *)

\* I3cEvent
I3cEvent(kind, addr) == [addr |-> addr, kind |-> kind]
AssignDynamicAddressEv(static_address) == I3cEvent("AssignDynamicAddress", static_address)
HandleHotJoinEv == I3cEvent("HandleHotJoin", 0)

\* I3cDriver::assign_dynamic_address: the controller's call and its result
I3cDriver_assign_dynamic_address(h, i, static_address, ret) ==
    [hal_log |-> Append(h, HalCall("assign_dynamic_address", i, <<static_address>>, ret,
                                   cs_state, reset_state)),
     result |-> ret]

\* I3cDriver::handle_hot_join
I3cDriver_handle_hot_join(h, i, ret) ==
    [hal_log |-> Append(h, HalCall("handle_hot_join", i, <<>>, ret, cs_state, reset_state)),
     result |-> ret]

\* mutant: a failed call is made a second time
i3c_event_handler_retrying(h, i, event, resp) ==
    CASE event.kind = "AssignDynamicAddress" ->
           LET r == I3cDriver_assign_dynamic_address(h, i, event.addr, resp)
           IN  IF r.result.tag = "Err"
               THEN [hal_log |-> I3cDriver_assign_dynamic_address(r.hal_log, i, event.addr,
                                                                  resp).hal_log,
                     result |-> Unit]
               ELSE [hal_log |-> r.hal_log, result |-> Unit]
      [] event.kind = "HandleHotJoin" ->
           [hal_log |-> I3cDriver_handle_hot_join(h, i, resp).hal_log, result |-> Unit]

\* i3c_event_handler: one driver call per match arm, its result dropped
\* (let _ =); the handler returns ().  resp is what the controller returns.
i3c_event_handler(h, i, event, resp) ==
    CASE event.kind = "AssignDynamicAddress" ->
           [hal_log |-> I3cDriver_assign_dynamic_address(h, i, event.addr, resp).hal_log,
            result |-> Unit]
      [] event.kind = "HandleHotJoin" ->
           [hal_log |-> I3cDriver_handle_hot_join(h, i, resp).hal_log, result |-> Unit]

EvAssignDynamicAddress ==
    \E s \in StaticAddrs :
    \E resp \in {assign_dynamic_address(s)} \cup {Err(e) : e \in Errors} :
        /\ Len(drv_log) < MaxI3cEvents
        /\ LET r == i3c_event_handler(hal_log, Len(drv_log) + 1,
                                      AssignDynamicAddressEv(s), resp)
           IN  /\ hal_log' = r.hal_log
               /\ drv_log' = Append(drv_log, DrvCall("AssignDynamicAddress", <<s>>, r.result))
        /\ UNCHANGED <<pinVars, i2cVars, i3cTargetVars, ibiVars, ctrlVars, kindVars>>

EvHandleHotJoin ==
    \E resp \in {handle_hot_join(pending_joiners).ret} \cup {Err(e) : e \in Errors} :
        /\ Len(drv_log) < MaxI3cEvents
        /\ LET r == i3c_event_handler(hal_log, Len(drv_log) + 1, HandleHotJoinEv, resp)
           IN  /\ hal_log' = r.hal_log
               /\ drv_log' = Append(drv_log, DrvCall("HandleHotJoin", <<>>, r.result))
        /\ UNCHANGED <<pinVars, i2cVars, i3cTargetVars, ibiVars, ctrlVars, kindVars>>

NextI3cHandler ==
    \/ EvAssignDynamicAddress
    \/ EvHandleHotJoin

SpecI3cHandler == Init /\ [][NextI3cHandler]_vars

---------------------------------------------------------------------------
(* SpiDeviceDriver (drivers/src/spi_device_driver.rs), generic in its SPI  *)
(* bus, its pins and its delay.  An output pin that returns Ok has taken   *)
(* the level asked for; one that returns Err keeps its level.  The busy    *)
(* pin is given by what it reads: high a number of times, then low, or an  *)
(* error, or high for ever.                                                *)

InitTimeout == 1000                 \* init: wait_busy(1000)
PollIntervals == {0, 7}             \* Config { poll_interval }: the default and another
SpiData == {<<1, 2, 3>>}            \* the bytes main writes
PinResults == {Ok(0)} \cup {Err(e) : e \in DispatchErrors}   \* OutputPin::set_*
SpiResults == {Ok(0)} \cup {Err(e) : e \in Errors}           \* SpiBus::write

\* Error<SpiError, PinError>
SpiErr(e) == [tag |-> "Spi", val |-> e]
PinErr(e) == [tag |-> "Pin", val |-> e]
BusyTimeout == [tag |-> "BusyTimeout", val |-> 0]

\* a busy pin that reads high `highs` times and `last` from then on
BusyPin(highs, last) == <<highs, last>>
BusyPins(maxHighs) == {BusyPin(h, l) : h \in maxHighs, l \in {"High", "Low", "Err"}}

\* the k-th is_high() of a busy pin
is_high(pin, k) ==
    LET level == IF k <= pin[1] THEN "High" ELSE pin[2]
    IN  CASE level = "High" -> BoolRet(TRUE)
          [] level = "Low" -> BoolRet(FALSE)
          [] level = "Err" -> Err(1)

\* the driver's pins and the calls made so far, with an operation's result
Driver(cs, reset, h, result) ==
    [cs_state |-> cs, reset_state |-> reset, hal_log |-> h, result |-> result]

\* the level of an output pin after set_low / set_high returned ret
LevelAfter(old, asked, ret) == IF ret.tag = "Ok" THEN asked ELSE old

\* mutant: the pulse is inverted, low first and high last
reset_inverted(d, i, set_high_ret, set_low_ret) ==
    LET l1 == LevelAfter(d.reset_state, FALSE, set_low_ret)
        h1 == Append(d.hal_log, HalCall("reset.set_low", i, <<>>, set_low_ret, d.cs_state, l1))
        h2 == Append(h1, HalCall("delay.delay_ms", i, <<1>>, Unit, d.cs_state, l1))
        l3 == LevelAfter(l1, TRUE, set_high_ret)
        h3 == Append(h2, HalCall("reset.set_high", i, <<>>, set_high_ret, d.cs_state, l3))
    IN  IF set_low_ret.tag = "Err" THEN Driver(d.cs_state, l1, h1, PinErr(set_low_ret.val))
        ELSE IF set_high_ret.tag = "Err" THEN Driver(d.cs_state, l3, h3, PinErr(set_high_ret.val))
        ELSE Driver(d.cs_state, l3, h3, Ok(0))

\* reset: set_high()?, delay_ms(1), set_low()?
reset(d, i, set_high_ret, set_low_ret) ==
    LET l1 == LevelAfter(d.reset_state, TRUE, set_high_ret)
        h1 == Append(d.hal_log, HalCall("reset.set_high", i, <<>>, set_high_ret, d.cs_state, l1))
        h2 == Append(h1, HalCall("delay.delay_ms", i, <<1>>, Unit, d.cs_state, l1))
        l3 == LevelAfter(l1, FALSE, set_low_ret)
        h3 == Append(h2, HalCall("reset.set_low", i, <<>>, set_low_ret, d.cs_state, l3))
    IN  IF set_high_ret.tag = "Err" THEN Driver(d.cs_state, l1, h1, PinErr(set_high_ret.val))
        ELSE IF set_low_ret.tag = "Err" THEN Driver(d.cs_state, l3, h3, PinErr(set_low_ret.val))
        ELSE Driver(d.cs_state, l3, h3, Ok(0))

\* the least element of a non-empty set of numbers
Min(S) == CHOOSE x \in S : \A y \in S : x <= y

\* How often the loop of wait_busy tests its condition: the k-th test is
\* made with elapsed = k - 1 and is the last one when the pin does not
\* read high or when elapsed >= timeout_ms.  elapsed never exceeds
\* timeout_ms, so the u32 cannot overflow.
LoopTests(timeout_ms, pin) ==
    LET ends == {k \in 1..(timeout_ms + 1) : is_high(pin, k).tag # "True"}
    IN  IF ends = {} THEN timeout_ms + 1 ELSE Min(ends)

\* The while loop of wait_busy, unrolled: is_high()? and, while it reads
\* high and elapsed < timeout_ms, delay_ms(poll_interval) and elapsed += 1.
poll_busy(d, i, interval, timeout_ms, pin) ==
    LET n == LoopTests(timeout_ms, pin)
        last == is_high(pin, n)
        made == [j \in 1..(2 * n - 1) |->
                    IF j % 2 = 1
                    THEN HalCall("busy.is_high", i, <<>>, is_high(pin, (j + 1) \div 2),
                                 d.cs_state, d.reset_state)
                    ELSE HalCall("delay.delay_ms", i, <<interval>>, Unit,
                                 d.cs_state, d.reset_state)]
    IN  Driver(d.cs_state, d.reset_state, d.hal_log \o made,
               CASE last.tag = "Err" -> PinErr(last.val)
                 [] last.tag = "False" -> Ok(0)
                 [] last.tag = "True" -> BusyTimeout)

\* mutant: the timeout is tested one poll late
wait_busy_late(d, i, interval, timeout_ms, pin) ==
    poll_busy(d, i, interval, timeout_ms + 1, pin)

\* mutant: a timeout is reported as success
wait_busy_forgiving(d, i, interval, timeout_ms, pin) ==
    LET r == poll_busy(d, i, interval, timeout_ms, pin)
    IN  IF r.result = BusyTimeout
        THEN Driver(r.cs_state, r.reset_state, r.hal_log, Ok(0))
        ELSE r

\* wait_busy: let mut elapsed = 0; while ... { ... }; Ok(())
wait_busy(d, i, interval, timeout_ms, pin) ==
    poll_busy(d, i, interval, timeout_ms, pin)

\* mutant: chip-select is left asserted after the transfer
write_keeping_cs(d, i, data, set_low_ret, spi_ret, set_high_ret) ==
    LET c1 == LevelAfter(d.cs_state, FALSE, set_low_ret)
        h1 == Append(d.hal_log, HalCall("cs.set_low", i, <<>>, set_low_ret, c1, d.reset_state))
        h2 == Append(h1, HalCall("spi.write", i, data, spi_ret, c1, d.reset_state))
    IN  IF set_low_ret.tag = "Err" THEN Driver(c1, d.reset_state, h1, PinErr(set_low_ret.val))
        ELSE IF spi_ret.tag = "Err" THEN Driver(c1, d.reset_state, h2, SpiErr(spi_ret.val))
        ELSE Driver(c1, d.reset_state, h2, Ok(0))

\* mutant: chip-select is released when the transfer fails
write_releasing_cs(d, i, data, set_low_ret, spi_ret, set_high_ret) ==
    LET c1 == LevelAfter(d.cs_state, FALSE, set_low_ret)
        h1 == Append(d.hal_log, HalCall("cs.set_low", i, <<>>, set_low_ret, c1, d.reset_state))
        h2 == Append(h1, HalCall("spi.write", i, data, spi_ret, c1, d.reset_state))
        c3 == LevelAfter(c1, TRUE, set_high_ret)
        h3 == Append(h2, HalCall("cs.set_high", i, <<>>, set_high_ret, c3, d.reset_state))
    IN  IF set_low_ret.tag = "Err" THEN Driver(c1, d.reset_state, h1, PinErr(set_low_ret.val))
        ELSE IF spi_ret.tag = "Err" THEN Driver(c3, d.reset_state, h3, SpiErr(spi_ret.val))
        ELSE IF set_high_ret.tag = "Err" THEN Driver(c3, d.reset_state, h3, PinErr(set_high_ret.val))
        ELSE Driver(c3, d.reset_state, h3, Ok(0))

\* write: cs.set_low()?, spi.write(data)?, cs.set_high()?
write(d, i, data, set_low_ret, spi_ret, set_high_ret) ==
    LET c1 == LevelAfter(d.cs_state, FALSE, set_low_ret)
        h1 == Append(d.hal_log, HalCall("cs.set_low", i, <<>>, set_low_ret, c1, d.reset_state))
        h2 == Append(h1, HalCall("spi.write", i, data, spi_ret, c1, d.reset_state))
        c3 == LevelAfter(c1, TRUE, set_high_ret)
        h3 == Append(h2, HalCall("cs.set_high", i, <<>>, set_high_ret, c3, d.reset_state))
    IN  IF set_low_ret.tag = "Err" THEN Driver(c1, d.reset_state, h1, PinErr(set_low_ret.val))
        ELSE IF spi_ret.tag = "Err" THEN Driver(c1, d.reset_state, h2, SpiErr(spi_ret.val))
        ELSE IF set_high_ret.tag = "Err" THEN Driver(c3, d.reset_state, h3, PinErr(set_high_ret.val))
        ELSE Driver(c3, d.reset_state, h3, Ok(0))

\* mutant: the device is polled although its reset failed
init_ignoring_reset(d, i, interval, set_high_ret, set_low_ret, pin) ==
    wait_busy(reset(d, i, set_high_ret, set_low_ret), i, interval, InitTimeout, pin)

\* init: reset()?, wait_busy(1000)?
init(d, i, interval, set_high_ret, set_low_ret, pin) ==
    LET r == reset(d, i, set_high_ret, set_low_ret)
    IN  IF r.result.tag # "Ok" THEN r
        ELSE wait_busy(r, i, interval, InitTimeout, pin)

\* the driver as the state holds it
ThisDriver == Driver(cs_state, reset_state, hal_log, Unit)

\* SpiDeviceDriver::new(config, ...) with pins at their initial level
New ==
    \E p \in PollIntervals :
        /\ drv_log = <<>>
        /\ poll_interval # p
        /\ poll_interval' = p
        /\ cs_state' = FALSE
        /\ reset_state' = FALSE
        /\ UNCHANGED <<hal_log, drv_log, i2cVars, i3cTargetVars, ibiVars, ctrlVars, kindVars>>

DriverReset ==
    \E set_high_ret \in PinResults : \E set_low_ret \in PinResults :
        /\ Len(drv_log) < MaxDrvCalls
        /\ LET r == reset(ThisDriver, Len(drv_log) + 1, set_high_ret, set_low_ret)
           IN  /\ cs_state' = r.cs_state
               /\ reset_state' = r.reset_state
               /\ hal_log' = r.hal_log
               /\ drv_log' = Append(drv_log, DrvCall("reset", <<>>, r.result))
        /\ UNCHANGED <<poll_interval, i2cVars, i3cTargetVars, ibiVars, ctrlVars, kindVars>>

DriverWaitBusy ==
    \E timeout_ms \in 0..MaxTimeout : \E pin \in BusyPins(0..(MaxTimeout + 1)) :
        /\ Len(drv_log) < MaxDrvCalls
        /\ LET r == wait_busy(ThisDriver, Len(drv_log) + 1, poll_interval, timeout_ms, pin)
           IN  /\ cs_state' = r.cs_state
               /\ reset_state' = r.reset_state
               /\ hal_log' = r.hal_log
               /\ drv_log' = Append(drv_log, DrvCall("wait_busy", <<timeout_ms>>, r.result))
        /\ UNCHANGED <<poll_interval, i2cVars, i3cTargetVars, ibiVars, ctrlVars, kindVars>>

DriverWrite ==
    \E data \in SpiData : \E set_low_ret \in PinResults :
    \E spi_ret \in SpiResults : \E set_high_ret \in PinResults :
        /\ Len(drv_log) < MaxDrvCalls
        /\ LET r == write(ThisDriver, Len(drv_log) + 1, data, set_low_ret, spi_ret, set_high_ret)
           IN  /\ cs_state' = r.cs_state
               /\ reset_state' = r.reset_state
               /\ hal_log' = r.hal_log
               /\ drv_log' = Append(drv_log, DrvCall("write", data, r.result))
        /\ UNCHANGED <<poll_interval, i2cVars, i3cTargetVars, ibiVars, ctrlVars, kindVars>>

NextSpiDriver ==
    \/ New
    \/ DriverReset
    \/ DriverWaitBusy
    \/ DriverWrite

SpecSpiDriver == Init /\ [][NextSpiDriver]_vars

\* init with a busy pin that goes low at once, after one poll, at the last
\* poll before the timeout, or not in time
DriverInit ==
    \E set_high_ret \in PinResults : \E set_low_ret \in PinResults :
    \E pin \in BusyPins({0, 1, InitTimeout, InitTimeout + 1}) :
        /\ Len(drv_log) < MaxInits
        /\ LET r == init(ThisDriver, Len(drv_log) + 1, poll_interval,
                         set_high_ret, set_low_ret, pin)
           IN  /\ cs_state' = r.cs_state
               /\ reset_state' = r.reset_state
               /\ hal_log' = r.hal_log
               /\ drv_log' = Append(drv_log, DrvCall("init", <<>>, r.result))
        /\ UNCHANGED <<poll_interval, i2cVars, i3cTargetVars, ibiVars, ctrlVars, kindVars>>

NextSpiInit ==
    \/ New
    \/ DriverInit

SpecSpiInit == Init /\ [][NextSpiInit]_vars

---------------------------------------------------------------------------
(* Smbus<I2C> (drivers/src/smbus.rs), generic in its I2C bus: what the bus *)
(* returns, and the byte it puts into the read buffer, are inputs.  A call *)
(* on the bus is logged with <<address, bytes written, read buffer on      *)
(* return>>.                                                               *)

SmbusBytes == {0, 171}              \* a data byte: 0x00 and 0xAB
I2cResults == {Ok(0)} \cup {Err(e) : e \in Errors}   \* Result<(), E> of the bus

\* what a driver operation leaves: the calls made and its result
Served(h, result) == [hal_log |-> h, result |-> result]

\* write_byte: self.i2c.write(addr, &[data])
write_byte(h, i, addr, data, ret) ==
    Served(Append(h, HalCall("i2c.write", i, <<addr, <<data>>>>, ret, cs_state, reset_state)),
           ret)

\* mutant: the buffer is returned as it was before the call
read_byte_unread(h, i, addr, ret, byte) ==
    Served(Append(h, HalCall("i2c.write_read", i, <<addr, <<>>, <<byte>>>>, ret,
                             cs_state, reset_state)),
           IF ret.tag = "Err" THEN ret ELSE Ok(0))

\* read_byte: buf = [0]; self.i2c.write_read(addr, &[], &mut buf)?;
\* Ok(buf[0]).  byte is what the bus leaves in buf[0] when it returns Ok.
read_byte(h, i, addr, ret, byte) ==
    LET buf == IF ret.tag = "Ok" THEN <<byte>> ELSE <<0>>
        h1 == Append(h, HalCall("i2c.write_read", i, <<addr, <<>>, buf>>, ret,
                                cs_state, reset_state))
    IN  IF ret.tag = "Err" THEN Served(h1, ret) ELSE Served(h1, Ok(buf[1]))

\* write_read: self.i2c.write_read(addr, data, buffer)
smbus_write_read(h, i, addr, data, buffer, ret) ==
    Served(Append(h, HalCall("i2c.write_read", i, <<addr, data, buffer>>, ret,
                             cs_state, reset_state)),
           ret)

SmbusWriteByte ==
    \E addr \in BusAddrs : \E data \in SmbusBytes : \E ret \in I2cResults :
        /\ Len(drv_log) < MaxSmbusCalls
        /\ LET r == write_byte(hal_log, Len(drv_log) + 1, addr, data, ret)
           IN  /\ hal_log' = r.hal_log
               /\ drv_log' = Append(drv_log, DrvCall("write_byte", <<addr, data>>, r.result))
        /\ UNCHANGED <<pinVars, i2cVars, i3cTargetVars, ibiVars, ctrlVars, kindVars>>

SmbusReadByte ==
    \E addr \in BusAddrs : \E ret \in I2cResults : \E byte \in SmbusBytes :
        /\ Len(drv_log) < MaxSmbusCalls
        /\ LET r == read_byte(hal_log, Len(drv_log) + 1, addr, ret, byte)
           IN  /\ hal_log' = r.hal_log
               /\ drv_log' = Append(drv_log, DrvCall("read_byte", <<addr>>, r.result))
        /\ UNCHANGED <<pinVars, i2cVars, i3cTargetVars, ibiVars, ctrlVars, kindVars>>

SmbusWriteRead ==
    \E addr \in BusAddrs : \E ret \in I2cResults : \E byte \in SmbusBytes :
        /\ Len(drv_log) < MaxSmbusCalls
        /\ LET r == smbus_write_read(hal_log, Len(drv_log) + 1, addr, <<1>>,
                                     IF ret.tag = "Ok" THEN <<byte>> ELSE <<0>>, ret)
           IN  /\ hal_log' = r.hal_log
               /\ drv_log' = Append(drv_log, DrvCall("write_read", <<addr, 1>>, r.result))
        /\ UNCHANGED <<pinVars, i2cVars, i3cTargetVars, ibiVars, ctrlVars, kindVars>>

NextSmbus ==
    \/ SmbusWriteByte
    \/ SmbusReadByte
    \/ SmbusWriteRead

SpecSmbus == Init /\ [][NextSmbus]_vars

---------------------------------------------------------------------------
(* Error classification: kind(&self) of the simulation's error types.      *)

I2cErrorKinds == {"Bus", "ArbitrationLoss", "NoAcknowledge", "Overrun", "Other"}
I3cErrorKinds == {"InvalidCcc", "DynamicAddressConflict", "IbiError", "HotJoinError",
                  "HdrModeViolation", "InvalidBroadcastAddress", "Other"}
MacErrorKinds == {"InvalidInputLength", "UnsupportedAlgorithm", "MemoryAllocationFailure",
                  "InitializationError", "UpdateError", "FinalizationError",
                  "HardwareAcceleratorBusy", "HardwareFailure", "InvalidOutputSize",
                  "PermissionDenied", "NotInitialized"}

DummyI3cError == "DummyI3cError"          \* the unit struct's one value
MacErrors == {"Init", "Update", "Finalize"}

\* the fixed set of kinds of an error family
ErrorKinds(family) ==
    CASE family = "i2c" -> I2cErrorKinds
      [] family = "i3c" -> I3cErrorKinds
      [] family = "mac" -> MacErrorKinds

\* embedded_hal::i2c::Error for DummyI3cError
DummyI3cError_i2c_kind(e) == "Other"

\* i3c_master::Error for DummyI3cError
DummyI3cError_i3c_kind(e) == "Other"

\* mutant: an update failure is classified as an initialization failure
MacError_kind_merged(e) ==
    CASE e = "Init" -> "InitializationError"
      [] e = "Update" -> "InitializationError"
      [] e = "Finalize" -> "FinalizationError"

\* proposed_traits::mac::Error for MacError
MacError_kind(e) ==
    CASE e = "Init" -> "InitializationError"
      [] e = "Update" -> "UpdateError"
      [] e = "Finalize" -> "FinalizationError"

\* one kind() call: the error value, the family asked and the kind returned
KindCall(error, family, k) == [kind |-> k, family |-> family, error |-> error]

ClassifyI2c ==
    /\ Len(kind_log) < MaxClassify
    /\ kind_log' = Append(kind_log, KindCall(DummyI3cError, "i2c",
                                             DummyI3cError_i2c_kind(DummyI3cError)))
    /\ UNCHANGED <<i2cVars, i3cTargetVars, ibiVars, ctrlVars, drvVars>>

ClassifyI3c ==
    /\ Len(kind_log) < MaxClassify
    /\ kind_log' = Append(kind_log, KindCall(DummyI3cError, "i3c",
                                             DummyI3cError_i3c_kind(DummyI3cError)))
    /\ UNCHANGED <<i2cVars, i3cTargetVars, ibiVars, ctrlVars, drvVars>>

ClassifyMac ==
    \E e \in MacErrors :
        /\ Len(kind_log) < MaxClassify
        /\ kind_log' = Append(kind_log, KindCall(e, "mac", MacError_kind(e)))
        /\ UNCHANGED <<i2cVars, i3cTargetVars, ibiVars, ctrlVars, drvVars>>

NextErrorKind ==
    \/ ClassifyI2c
    \/ ClassifyI3c
    \/ ClassifyMac

SpecErrorKind == Init /\ [][NextErrorKind]_vars

---------------------------------------------------------------------------
(* Reading the history.                                                    *)

\* the callbacks made while event i was handled
CallsOf(i) == {j \in DOMAIN calls : calls[j].ev = i}

\* event i was an AddressMatch and on_address_match returned true for it
MatchedTrue(i) ==
    /\ i \in DOMAIN events
    /\ events[i].kind = "AddressMatch"
    /\ \E j \in CallsOf(i) :
          calls[j].op = "on_address_match" /\ calls[j].ret = BoolRet(TRUE)

\* event i was an AddressMatch and on_address_match returned false for it
MatchedFalse(i) ==
    /\ i \in DOMAIN events
    /\ events[i].kind = "AddressMatch"
    /\ \E j \in CallsOf(i) :
          calls[j].op = "on_address_match" /\ calls[j].ret = BoolRet(FALSE)

DataOps == {"on_write", "on_read"}

\* event s is the first Stop after event a
NextStop(a, s) ==
    /\ a < s /\ s \in DOMAIN events
    /\ events[s].kind = "Stop"
    /\ \A m \in (a + 1)..(s - 1) : events[m].kind # "Stop"

\* the number of callbacks made up to and including event i
CallsUpTo(i) == Cardinality({j \in DOMAIN calls : calls[j].ev <= i})

\* TransactionState of the target, as the sequence of callbacks drives it:
\* Idle -(match = true)-> Addressed -(start)-> Active -(write/read)*->
\* Active, and a stop leads to Idle from any state.
TransactionStep(state, call) ==
    CASE call.op = "on_stop" -> "Idle"
      [] call.op = "on_address_match" /\ call.ret = BoolRet(TRUE) /\ state = "Idle" -> "Addressed"
      [] call.op = "on_transaction_start" /\ state = "Addressed" -> "Active"
      [] OTHER -> state

RECURSIVE TransactionStateAfter(_)
TransactionStateAfter(n) ==
    IF n = 0 THEN "Idle"
    ELSE TransactionStep(TransactionStateAfter(n - 1), calls[n])

---------------------------------------------------------------------------
(* Claims about the dispatcher.                                            *)

\* C1: a TransactionStart event is forwarded to on_transaction_start only
\* if the immediately preceding event was an AddressMatch for which
\* on_address_match returned true.
C1_StartOnlyAfterTrueMatch ==
    \A j \in DOMAIN calls :
        calls[j].op = "on_transaction_start" => MatchedTrue(calls[j].ev - 1)

\* C2: after an AddressMatch for which on_address_match returned false, no
\* following Write or Read event is forwarded until a later AddressMatch
\* returns true.
C2_NoDataAfterFalseMatch ==
    \A i \in DOMAIN events : \A k \in 1..(i - 1) :
        ( /\ events[i].kind \in {"Write", "Read"}
          /\ MatchedFalse(k)
          /\ \A m \in (k + 1)..(i - 1) : ~MatchedTrue(m) )
        => \A j \in CallsOf(i) : calls[j].op \notin DataOps

\* C3: on_write and on_read are called only while a transaction is active:
\* after on_transaction_start has been called and before the next Stop.
C3_DataOnlyInActiveTransaction ==
    \A j \in DOMAIN calls :
        calls[j].op \in DataOps =>
            \E k \in 1..(j - 1) :
                /\ calls[k].op = "on_transaction_start"
                /\ \A s \in calls[k].ev..calls[j].ev : events[s].kind # "Stop"

\* C4: every Stop event is forwarded to the target as exactly one on_stop
\* call, in whatever state the dispatcher is and also after a callback of
\* the same transaction returned an error.
C4_StopAlwaysForwardedOnce ==
    \A i \in DOMAIN events :
        events[i].kind = "Stop" =>
            /\ Cardinality(CallsOf(i)) = 1
            /\ \A j \in CallsOf(i) : calls[j].op = "on_stop"

\* C4 witness: a Stop directly after a true address match has been
\* forwarded, and so has the Stop of a later transaction (opened by a true
\* address match) in which on_write failed.
C4_Witness ==
    \E i, a, s \in DOMAIN events : \E w \in DOMAIN calls :
        /\ MatchedTrue(i) /\ NextStop(i, i + 1)
        /\ \E j \in CallsOf(i + 1) : calls[j].op = "on_stop"
        /\ i + 1 < a /\ MatchedTrue(a)
        /\ calls[w].op = "on_write" /\ calls[w].ret.tag = "Err"
        /\ a < calls[w].ev /\ NextStop(a, s) /\ calls[w].ev < s
        /\ \E j \in CallsOf(s) : calls[j].op = "on_stop"

\* C5: after a Stop, a Write, Read or TransactionStart event is not
\* forwarded to the target until a new AddressMatch has returned true.
C5_NothingForwardedAfterStop ==
    \A i \in DOMAIN events : \A s \in 1..(i - 1) :
        ( /\ events[i].kind \in {"Write", "Read", "TransactionStart"}
          /\ events[s].kind = "Stop"
          /\ \A m \in (s + 1)..(i - 1) : ~MatchedTrue(m) )
        => CallsOf(i) = {}

\* the events k..k+4 are AddressMatch (answered true), TransactionStart,
\* Write, Write, Stop
WellFormedWrites(k) ==
    /\ (k + 4) \in DOMAIN events
    /\ MatchedTrue(k)
    /\ events[k + 1].kind = "TransactionStart"
    /\ events[k + 2].kind = "Write"
    /\ events[k + 3].kind = "Write"
    /\ events[k + 4].kind = "Stop"

\* C6: for AddressMatch(true), TransactionStart(r), Write(d1), Write(d2),
\* Stop the target receives on_write(d1) before on_write(d2), the data
\* unchanged, and on_stop exactly once, after both writes.
C6_WritesInOrderThenOneStop ==
    \A k \in DOMAIN events :
        WellFormedWrites(k) =>
            \E w1, w2, st \in DOMAIN calls :
                /\ w1 < w2 /\ w2 < st
                /\ CallsOf(k + 2) = {w1}
                /\ calls[w1].op = "on_write" /\ calls[w1].data = events[k + 2].data
                /\ CallsOf(k + 3) = {w2}
                /\ calls[w2].op = "on_write" /\ calls[w2].data = events[k + 3].data
                /\ {j \in DOMAIN calls : calls[j].ev \in k..(k + 4) /\ calls[j].op = "on_stop"} = {st}

\* C6 witness: such a sequence with two different bursts has been handled
\* and the target has received both, in order.
C6_Witness ==
    \E k \in DOMAIN events :
        /\ WellFormedWrites(k)
        /\ events[k + 2].data = <<2, 3>> /\ events[k + 3].data = <<1>>
        /\ \E w1, w2 \in DOMAIN calls :
              /\ w1 < w2
              /\ calls[w1].op = "on_write" /\ calls[w1].data = <<2, 3>>
              /\ calls[w2].op = "on_write" /\ calls[w2].data = <<1>>

\* C7: handling two Stop events in a row produces no error, and the
\* transaction state of the target is Idle after the first and after the
\* second Stop.
C7_DoubleStopIdle ==
    \A i \in DOMAIN events :
        ( /\ (i + 1) \in DOMAIN events
          /\ events[i].kind = "Stop" /\ events[i + 1].kind = "Stop" )
        => /\ results[i] = Unit /\ results[i + 1] = Unit
           /\ \A j \in CallsOf(i) \cup CallsOf(i + 1) : calls[j].ret = Unit
           /\ TransactionStateAfter(CallsUpTo(i)) = "Idle"
           /\ TransactionStateAfter(CallsUpTo(i + 1)) = "Idle"

\* C7 witness: two Stops in a row have been handled inside a transaction
\* that was active (so the first Stop is what brings the target to Idle).
C7_Witness ==
    \E i \in DOMAIN events :
        /\ i > 1 /\ (i + 1) \in DOMAIN events
        /\ events[i].kind = "Stop" /\ events[i + 1].kind = "Stop"
        /\ TransactionStateAfter(CallsUpTo(i - 1)) = "Active"
        /\ TransactionStateAfter(CallsUpTo(i + 1)) = "Idle"

\* C8: within one transaction (from an AddressMatch that returned true up
\* to the next Stop) on_transaction_start is invoked exactly once, and
\* before any on_write or on_read of that transaction.
C8_OneStartBeforeData ==
    \A a, s \in DOMAIN events :
        (MatchedTrue(a) /\ NextStop(a, s)) =>
            LET inTx == {j \in DOMAIN calls : a < calls[j].ev /\ calls[j].ev < s}
                starts == {j \in inTx : calls[j].op = "on_transaction_start"}
            IN  /\ Cardinality(starts) = 1
                /\ \A d \in inTx : calls[d].op \in DataOps =>
                       \E t \in starts : t < d

---------------------------------------------------------------------------
(* Claims about the default on_write_read.                                 *)

\* C9: the default on_write_read calls on_write(write_buffer) once and then
\* on_read(read_buffer) once, in that order, and returns on_read's result;
\* when on_write returns an error, on_read is not called and that error is
\* returned.
C9_WriteThenRead ==
    \A i \in DOMAIN events :
        events[i].kind = "WriteRead" =>
            \E w \in CallsOf(i) :
                /\ calls[w].op = "on_write"
                /\ calls[w].data = events[i].data
                /\ IF calls[w].ret.tag = "Err"
                   THEN /\ CallsOf(i) = {w}
                        /\ results[i] = calls[w].ret
                   ELSE /\ CallsOf(i) = {w, w + 1}
                        /\ (w + 1) \in DOMAIN calls
                        /\ calls[w + 1].op = "on_read"
                        /\ calls[w + 1].data = events[i].rbuf
                        /\ results[i] = calls[w + 1].ret

\* C9 witness: one invocation whose on_write failed with the second error
\* value and returned it, and one whose on_write succeeded and whose
\* on_read reported two bytes.
C9_Witness ==
    \E i, k \in DOMAIN events :
        /\ events[i].kind = "WriteRead" /\ events[k].kind = "WriteRead"
        /\ results[i] = Err(2)
        /\ \A j \in CallsOf(i) : calls[j].op = "on_write" /\ calls[j].ret = Err(2)
        /\ results[k] = Ok(2)
        /\ \E j \in CallsOf(k) : calls[j].op = "on_read" /\ calls[j].ret = Ok(2)

---------------------------------------------------------------------------
(* Claims about the I3C target.                                            *)

NoneBetween(op, i, j) == \A m \in (i + 1)..(j - 1) : ibi_log[m].op # op

\* entry i is the most recent wants_ibi call before entry j
LastWantsBefore(i, j) ==
    /\ i \in DOMAIN ibi_log /\ i < j
    /\ ibi_log[i].op = "wants_ibi"
    /\ NoneBetween("wants_ibi", i, j)

C12_IbiSequencing ==
    /\ \A j \in DOMAIN ibi_log :
          ibi_log[j].op = "on_ibi_acknowledged" =>
              \E i \in 1..(j - 1) :
                  /\ LastWantsBefore(i, j) /\ ibi_log[i].ret = BoolRet(TRUE)
                  /\ NoneBetween("on_ibi_acknowledged", i, j)
                  /\ LET fetches == {g \in (i + 1)..(j - 1) : ibi_log[g].op = "get_ibi_payload"}
                         accepted == \E m \in (i + 1)..(j - 1) : ibi_log[m].op = "accepted"
                     IN  Cardinality(fetches) = IF accepted THEN 1 ELSE 0
    /\ \A g \in DOMAIN ibi_log :
          ibi_log[g].op = "get_ibi_payload" =>
              \E i \in 1..(g - 1) :
                  /\ LastWantsBefore(i, g) /\ ibi_log[i].ret = BoolRet(TRUE)
                  /\ NoneBetween("on_ibi_acknowledged", i, g)

\* C12 witness: one request was accepted (one payload fetch, then the
\* acknowledgment) and another one declined (the acknowledgment alone).
C12_Witness ==
    \E a, d \in DOMAIN ibi_log :
        /\ (a + 3) \in DOMAIN ibi_log /\ (d + 2) \in DOMAIN ibi_log
        /\ ibi_log[a].op = "wants_ibi" /\ ibi_log[a].ret = BoolRet(TRUE)
        /\ ibi_log[a + 1].op = "accepted"
        /\ ibi_log[a + 2].op = "get_ibi_payload" /\ ibi_log[a + 2].ret.tag = "Ok"
        /\ ibi_log[a + 3].op = "on_ibi_acknowledged"
        /\ ibi_log[d].op = "wants_ibi" /\ ibi_log[d].ret = BoolRet(TRUE)
        /\ ibi_log[d + 1].op = "declined"
        /\ ibi_log[d + 2].op = "on_ibi_acknowledged"

\* C13: after on_ibi_acknowledged() the pending-request flag is cleared:
\* wants_ibi() returns false until a new interrupt-worthy event occurs.
C13_AcknowledgeClearsRequest ==
    /\ \A i, j \in DOMAIN ibi_log :
          ( /\ i < j
            /\ ibi_log[i].op = "on_ibi_acknowledged"
            /\ ibi_log[j].op = "wants_ibi"
            /\ NoneBetween("event", i, j) )
          => ibi_log[j].ret = BoolRet(FALSE)
    /\ ( /\ Len(ibi_log) > 0
         /\ \E i \in DOMAIN ibi_log :
               /\ ibi_log[i].op = "on_ibi_acknowledged"
               /\ NoneBetween("event", i, Len(ibi_log) + 1) )
       => ~ibi_pending

\* C13 witness: wants_ibi returned true, the request was acknowledged, and
\* the next wants_ibi returned false.
C13_Witness ==
    \E i \in DOMAIN ibi_log :
        /\ i > 1 /\ (i + 1) \in DOMAIN ibi_log
        /\ ibi_log[i - 1].op = "wants_ibi" /\ ibi_log[i - 1].ret = BoolRet(TRUE)
        /\ ibi_log[i].op = "on_ibi_acknowledged"
        /\ ibi_log[i + 1].op = "wants_ibi" /\ ibi_log[i + 1].ret = BoolRet(FALSE)

\* the positions of the controller history holding a call of op
CtrlCallsOf(op) == {i \in DOMAIN ctrl_log : ctrl_log[i].op = op}

\* C14: on DummyI3cController assign_dynamic_address(s) returns Ok(s + 1)
\* whatever was called before; assign_dynamic_address(0x52) returns 0x53.
C14_AssignReturnsNext ==
    \A i \in CtrlCallsOf("assign_dynamic_address") :
        /\ ctrl_log[i].ret = Ok(ctrl_log[i].addr + 1)
        /\ ctrl_log[i].addr = static_addr => ctrl_log[i].ret = Ok(83)

\* C14 witness: assign_dynamic_address(0x52) returned 0x53 after two other
\* calls, one of them an assignment for another address.
C14_Witness ==
    /\ Len(ctrl_log) >= 3
    /\ ctrl_log[3].op = "assign_dynamic_address"
    /\ ctrl_log[3].addr = static_addr /\ ctrl_log[3].ret = Ok(83)
    /\ \E i \in 1..2 : /\ ctrl_log[i].op = "assign_dynamic_address"
                       /\ ctrl_log[i].addr # static_addr

\* C15: the dynamic address assign_dynamic_address returns is a 7-bit value
\* (at most 0x7F) for every 7-bit static address, 0x7F included.
C15_DynamicAddressSevenBit ==
    \A i \in CtrlCallsOf("assign_dynamic_address") :
        ctrl_log[i].addr <= 127 =>
            (ctrl_log[i].ret.tag = "Ok" => ctrl_log[i].ret.val <= 127)

C17_HotJoinNoJoiner ==
    \A i \in CtrlCallsOf("handle_hot_join") :
        ctrl_log[i].before = {} =>
            /\ ctrl_log[i].ret = Ok(0)
            /\ ctrl_log[i].nested = <<>>
            /\ ctrl_log[i].after = ctrl_log[i].before

\* C17 witness: handle_hot_join was called alone, with no device waiting,
\* and returned Ok.
C17_Witness ==
    \E i \in CtrlCallsOf("handle_hot_join") :
        /\ ctrl_log[i].before = {} /\ ctrl_log[i].ret = Ok(0)
        /\ pending_joiners = {}
        /\ CtrlCallsOf("test_i3c_sequence") = {}

\* C18: handle_hot_join() with one device waiting to join makes exactly one
\* successful assign_dynamic_address call for that device, or returns an
\* error (HotJoinError) when a step fails.
C18_HotJoinAssignsJoiner ==
    \A i \in CtrlCallsOf("handle_hot_join") :
        Cardinality(ctrl_log[i].before) = 1 =>
            \/ ctrl_log[i].ret.tag = "Err"
            \/ /\ Len(ctrl_log[i].nested) = 1
               /\ ctrl_log[i].nested[1].op = "assign_dynamic_address"
               /\ ctrl_log[i].nested[1].addr \in ctrl_log[i].before
               /\ ctrl_log[i].nested[1].ret.tag = "Ok"

\* the six steps of test_i3c_sequence, in order
SequenceSteps ==
    <<"assign_dynamic_address", "acknowledge_ibi", "handle_hot_join",
      "set_bus_speed", "request_mastership", "write_read">>

\* C19: every I3c and I2c operation of DummyI3cController returns Ok for any
\* 7-bit address, in any order, and test_i3c_sequence runs its six steps on
\* one controller with every step returning Ok.
C19_EveryOperationOk ==
    /\ \A i \in DOMAIN ctrl_log :
          ctrl_log[i].addr <= 127 => ctrl_log[i].ret.tag \in {"Ok", "Unit"}
    /\ \A i \in CtrlCallsOf("test_i3c_sequence") :
          \A k \in DOMAIN SequenceSteps :
              /\ (i + k) \in DOMAIN ctrl_log
              /\ ctrl_log[i + k].op = SequenceSteps[k]
              /\ ctrl_log[i + k].ret.tag = "Ok"

\* C19 witness: test_i3c_sequence ran to its last step, the I2C write_read,
\* on a controller that had served other calls before.
C19_Witness ==
    \E i \in CtrlCallsOf("test_i3c_sequence") :
        /\ i > 1
        /\ (i + 6) \in DOMAIN ctrl_log
        /\ ctrl_log[i + 6].op = "write_read" /\ ctrl_log[i + 6].ret = Ok(0)

\* C20: kind() returns one kind of its family's fixed set for every error
\* value and the same kind on every call; DummyI3cError is Other in the
\* I2C and in the I3C family, and MacError's Init, Update and Finalize
\* have three distinct kinds.
C20_KindTotalAndStable ==
    /\ \A i \in DOMAIN kind_log :
          /\ kind_log[i].kind \in ErrorKinds(kind_log[i].family)
          /\ kind_log[i].error = DummyI3cError => kind_log[i].kind = "Other"
    /\ \A i, j \in DOMAIN kind_log :
          kind_log[i].family = kind_log[j].family =>
              /\ kind_log[i].error = kind_log[j].error => kind_log[i].kind = kind_log[j].kind
              /\ (kind_log[i].family = "mac" /\ kind_log[i].error # kind_log[j].error)
                     => kind_log[i].kind # kind_log[j].kind

\* C20 witness: DummyI3cError was classified in both families, and each of
\* the three MacError values once.
C20_Witness ==
    /\ \E i, j \in DOMAIN kind_log :
          /\ kind_log[i].family = "i2c" /\ kind_log[i].kind = "Other"
          /\ kind_log[j].family = "i3c" /\ kind_log[j].kind = "Other"
    /\ \A e \in MacErrors : \E i \in DOMAIN kind_log : kind_log[i].error = e

\* the callback an event kind is forwarded to
CallbackOf(kind) ==
    CASE kind = "AddressMatch" -> "on_address_match"
      [] kind = "TransactionStart" -> "on_transaction_start"
      [] kind = "Write" -> "on_write"
      [] kind = "Read" -> "on_read"
      [] kind = "Stop" -> "on_stop"

\* C21: i2c_event_handler keeps no transaction state: each event produces
\* exactly one call on the target, of the matching kind and with the same
\* argument, whatever the earlier events were and whatever
\* on_address_match returned.
C21_OneCallPerEvent ==
    /\ Len(calls) = Len(events)
    /\ Len(results) = Len(events)
    /\ \A i \in DOMAIN events :
          /\ calls[i].ev = i
          /\ calls[i].op = CallbackOf(events[i].kind)
          /\ calls[i].addr = events[i].addr
          /\ calls[i].repeated = events[i].repeated
          /\ calls[i].data = IF events[i].kind = "Read" THEN events[i].rbuf
                                                        ELSE events[i].data
          /\ results[i] = Unit

\* C21 witness: the target declined the address match, and the Write and
\* the Read that followed were each forwarded all the same.
C21_Witness ==
    /\ Len(events) >= 3
    /\ events[1].kind = "AddressMatch" /\ calls[1].ret = BoolRet(FALSE)
    /\ events[2].kind = "Write" /\ calls[2].op = "on_write"
    /\ events[3].kind = "Read" /\ calls[3].op = "on_read"

\* the controller method an I3cEvent is turned into
ControllerCallOf(kind) ==
    CASE kind = "AssignDynamicAddress" -> "assign_dynamic_address"
      [] kind = "HandleHotJoin" -> "handle_hot_join"

\* C22: i3c_event_handler turns each I3cEvent into exactly one controller
\* call (AssignDynamicAddress{s} into assign_dynamic_address(s),
\* HandleHotJoin into handle_hot_join()), drops its result, and makes no
\* second call and no retry, whether the call succeeded or failed.
C22_OneControllerCallPerEvent ==
    /\ Len(hal_log) = Len(drv_log)
    /\ \A i \in DOMAIN drv_log :
          /\ hal_log[i].ev = i
          /\ hal_log[i].op = ControllerCallOf(drv_log[i].op)
          /\ hal_log[i].data = drv_log[i].data
          /\ drv_log[i].ret = Unit

\* C22 witness: an assign_dynamic_address call failed, a handle_hot_join
\* call failed, and the next event was served by one call that succeeded.
C22_Witness ==
    /\ Len(drv_log) = 3
    /\ drv_log[1].op = "AssignDynamicAddress" /\ hal_log[1].ret.tag = "Err"
    /\ drv_log[2].op = "HandleHotJoin" /\ hal_log[2].ret.tag = "Err"
    /\ drv_log[3].op = "AssignDynamicAddress" /\ hal_log[3].ret = Ok(83)

\* the calls driver operation i made on the objects the driver owns
HalSeq(i) == SelectSeq(hal_log, LAMBDA c : c.ev = i)

\* the busy-pin reads and the delays of driver operation i
ReadsOf(i) == SelectSeq(hal_log, LAMBDA c : c.ev = i /\ c.op = "busy.is_high")
DelaysOf(i) == SelectSeq(hal_log, LAMBDA c : c.ev = i /\ c.op = "delay.delay_ms")

\* the operations of one kind invoked on the driver
DrvCallsOf(op) == {i \in DOMAIN drv_log : drv_log[i].op = op}

\* the methods called, in order
OpsOf(calls_made) == [k \in DOMAIN calls_made |-> calls_made[k].op]

\* C23: wait_busy(timeout_ms) terminates: it reads the busy pin at most
\* timeout_ms + 1 times and calls the delay at most timeout_ms times,
\* whatever the pin reads; one delay and one count step per poll that read
\* high, whatever config.poll_interval is.
C23_WaitBusyBounded ==
    \A i \in DrvCallsOf("wait_busy") :
        LET timeout_ms == drv_log[i].data[1]
            reads == ReadsOf(i)
            delays == DelaysOf(i)
        IN  /\ Len(reads) >= 1 /\ Len(reads) <= timeout_ms + 1
            /\ Len(delays) <= timeout_ms
            /\ Len(delays) = Len(reads) - 1
            /\ Len(HalSeq(i)) = Len(reads) + Len(delays)
            /\ \A k \in DOMAIN delays : delays[k].data = <<poll_interval>>

\* C23 witness: with poll_interval 0 and a pin that stays high,
\* wait_busy(MaxTimeout) ended after MaxTimeout + 1 reads and MaxTimeout
\* delays of 0 ms.
C23_Witness ==
    \E i \in DrvCallsOf("wait_busy") :
        /\ poll_interval = 0
        /\ drv_log[i].data = <<MaxTimeout>>
        /\ Len(ReadsOf(i)) = MaxTimeout + 1
        /\ Len(DelaysOf(i)) = MaxTimeout
        /\ drv_log[i].ret = BusyTimeout

\* C24: wait_busy(timeout_ms) returns Ok exactly when one of its at most
\* timeout_ms + 1 reads of the busy pin is low, Err(BusyTimeout) exactly
\* when timeout_ms + 1 reads were all high (wait_busy(0) fails on one high
\* read, with no delay), and Err(Pin) at the first failing read.
C24_WaitBusyResult ==
    \A i \in DrvCallsOf("wait_busy") :
        LET timeout_ms == drv_log[i].data[1]
            reads == ReadsOf(i)
            last == reads[Len(reads)].ret
            ret == drv_log[i].ret
        IN  /\ \A k \in 1..(Len(reads) - 1) : reads[k].ret = BoolRet(TRUE)
            /\ ret = Ok(0) <=> last = BoolRet(FALSE)
            /\ ret = BusyTimeout <=> (Len(reads) = timeout_ms + 1 /\ last = BoolRet(TRUE))
            /\ ret.tag = "Pin" <=> last.tag = "Err"
            /\ ret.tag = "Pin" => ret.val = last.val
            /\ (timeout_ms = 0 /\ reads[1].ret = BoolRet(TRUE))
                   => (ret = BusyTimeout /\ Len(reads) = 1 /\ Len(DelaysOf(i)) = 0)

\* C24 witness: wait_busy(0) failed on one high read, and a wait_busy
\* returned Ok at a low read that followed a high one.
C24_Witness ==
    \E i, j \in DrvCallsOf("wait_busy") :
        /\ drv_log[i].data = <<0>> /\ drv_log[i].ret = BusyTimeout
        /\ Len(ReadsOf(i)) = 1
        /\ drv_log[j].ret = Ok(0) /\ Len(ReadsOf(j)) = 2

\* C25: a successful write(data) makes exactly cs.set_low, spi.write(data),
\* cs.set_high, once each and in that order; chip-select is low during the
\* transfer and high when write returns Ok.
C25_WriteSequence ==
    \A i \in DrvCallsOf("write") :
        drv_log[i].ret = Ok(0) =>
            LET made == HalSeq(i)
            IN  /\ OpsOf(made) = <<"cs.set_low", "spi.write", "cs.set_high">>
                /\ made[2].data = drv_log[i].data
                /\ made[1].cs = FALSE /\ made[2].cs = FALSE
                /\ made[3].cs = TRUE
                /\ i = Len(drv_log) => cs_state = TRUE

\* C25 witness: a write succeeded after an earlier write had failed.
C25_Witness ==
    /\ Len(drv_log) = 2
    /\ drv_log[1].op = "write" /\ drv_log[1].ret.tag = "Spi"
    /\ drv_log[2].op = "write" /\ drv_log[2].ret = Ok(0)
    /\ cs_state = TRUE

\* C26: when cs.set_low fails, spi.write is not called and write returns
\* Err(Pin); when spi.write fails, write returns Err(Spi) with that error
\* and cs.set_high is not called: chip-select stays low after the failed
\* write.
C26_WriteErrorPaths ==
    \A i \in DrvCallsOf("write") :
        LET made == HalSeq(i)
        IN  /\ made[1].op = "cs.set_low"
            /\ made[1].ret.tag = "Err" =>
                   /\ OpsOf(made) = <<"cs.set_low">>
                   /\ drv_log[i].ret = PinErr(made[1].ret.val)
            /\ (made[1].ret.tag = "Ok" /\ made[2].ret.tag = "Err") =>
                   /\ OpsOf(made) = <<"cs.set_low", "spi.write">>
                   /\ drv_log[i].ret = SpiErr(made[2].ret.val)
                   /\ made[2].cs = FALSE
                   /\ i = Len(drv_log) => cs_state = FALSE

\* C26 witness: one write failed at cs.set_low, the next at spi.write and
\* left chip-select low.
C26_Witness ==
    /\ Len(drv_log) = 2
    /\ drv_log[1].op = "write" /\ drv_log[1].ret.tag = "Pin"
    /\ drv_log[2].op = "write" /\ drv_log[2].ret.tag = "Spi"
    /\ cs_state = FALSE

\* C27: reset drives the reset pin high, delays 1 ms, then drives it low,
\* in that order; after a successful reset the pin is low; when set_high
\* fails neither the delay nor set_low is executed.
C27_ResetSequence ==
    \A i \in DrvCallsOf("reset") :
        LET made == HalSeq(i)
        IN  /\ made[1].op = "reset.set_high"
            /\ made[1].ret.tag = "Err" =>
                   /\ OpsOf(made) = <<"reset.set_high">>
                   /\ drv_log[i].ret = PinErr(made[1].ret.val)
            /\ made[1].ret.tag = "Ok" =>
                   /\ OpsOf(made) = <<"reset.set_high", "delay.delay_ms", "reset.set_low">>
                   /\ made[1].reset = TRUE
                   /\ made[2].data = <<1>>
            /\ drv_log[i].ret = Ok(0) =>
                   /\ made[3].reset = FALSE
                   /\ i = Len(drv_log) => reset_state = FALSE

\* C27 witness: a reset failed at set_high, and the next reset succeeded
\* and left the pin low.
C27_Witness ==
    /\ Len(drv_log) = 2
    /\ drv_log[1].op = "reset" /\ Len(HalSeq(1)) = 1 /\ drv_log[1].ret.tag = "Pin"
    /\ drv_log[2].op = "reset" /\ drv_log[2].ret = Ok(0)
    /\ reset_state = FALSE

\* C28: init runs reset and then wait_busy(1000): when reset fails the busy
\* pin is never read and the reset error is returned; otherwise init
\* returns Err(BusyTimeout) exactly when the busy pin read high on 1001
\* consecutive polls, and Ok as soon as one poll reads low.
C28_InitSequence ==
    \A i \in DrvCallsOf("init") :
        LET made == HalSeq(i)
            reads == ReadsOf(i)
            ret == drv_log[i].ret
            failed == {k \in 1..3 : k <= Len(made) /\ made[k].ret.tag = "Err"}
        IN  /\ made[1].op = "reset.set_high"
            /\ failed # {} =>
                   /\ Len(reads) = 0
                   /\ Len(made) = Min(failed)
                   /\ ret = PinErr(made[Min(failed)].ret.val)
            /\ failed = {} =>
                   /\ OpsOf(SubSeq(made, 1, 3)) = <<"reset.set_high", "delay.delay_ms", "reset.set_low">>
                   /\ Len(reads) >= 1 /\ Len(reads) <= InitTimeout + 1
                   /\ \A k \in 1..(Len(reads) - 1) : reads[k].ret = BoolRet(TRUE)
                   /\ ret = BusyTimeout <=> /\ Len(reads) = InitTimeout + 1
                                            /\ reads[Len(reads)].ret = BoolRet(TRUE)
                   /\ ret = Ok(0) <=> reads[Len(reads)].ret = BoolRet(FALSE)

\* C28 witness: one init failed in reset without reading the busy pin, and
\* one timed out after 1001 high reads.
C28_Witness ==
    \E i, j \in DrvCallsOf("init") :
        /\ drv_log[i].ret.tag = "Pin" /\ Len(ReadsOf(i)) = 0
        /\ drv_log[j].ret = BusyTimeout /\ Len(ReadsOf(j)) = InitTimeout + 1

\* C29: write_byte(addr, d) issues exactly one I2C write to addr carrying
\* the single byte d; read_byte(addr) issues exactly one I2C write_read to
\* addr with an empty write part and a one-byte read part and returns that
\* byte; an error of the I2C call is returned unchanged and no further bus
\* call is made.
C29_SmbusOneBusCall ==
    /\ Len(hal_log) = Len(drv_log)
    /\ \A i \in DOMAIN drv_log :
          /\ hal_log[i].ev = i
          /\ hal_log[i].data[1] = drv_log[i].data[1]
          /\ hal_log[i].ret.tag = "Err" => drv_log[i].ret = hal_log[i].ret
          /\ drv_log[i].op = "write_byte" =>
                 /\ hal_log[i].op = "i2c.write"
                 /\ hal_log[i].data[2] = <<drv_log[i].data[2]>>
                 /\ drv_log[i].ret = hal_log[i].ret
          /\ drv_log[i].op = "read_byte" =>
                 /\ hal_log[i].op = "i2c.write_read"
                 /\ hal_log[i].data[2] = <<>>
                 /\ Len(hal_log[i].data[3]) = 1
                 /\ hal_log[i].ret.tag = "Ok" => drv_log[i].ret = Ok(hal_log[i].data[3][1])

\* C29 witness: a write_byte failed with the bus's error, and the read_byte
\* after it returned the byte 0xAB the bus had read.
C29_Witness ==
    /\ Len(drv_log) = 2
    /\ drv_log[1].op = "write_byte" /\ hal_log[1].ret = Err(2) /\ drv_log[1].ret = Err(2)
    /\ drv_log[2].op = "read_byte" /\ drv_log[2].ret = Ok(171)

=============================================================================
